---- MODULE Spec2Model ----
(***************************************************************************)
(* The amp-story store service                                             *)
(* (extensions/amp-story/1.0/amp-story-store-service.js): a snapshot of    *)
(* named state properties, a reducer `actions`, and per-key listener       *)
(* lists notified by `dispatch`.                                           *)
(***************************************************************************)
EXTENDS Integers, Sequences, FiniteSets, TLC

(***************************************************************************)
(* JavaScript values.  Every value is a record with the same four fields,  *)
(* so that = on two values is JavaScript's === : same type and same value. *)
(* Numbers are integers (NaN is not in the domain) and an object is the    *)
(* {id, index} payload of CHANGE_PAGE, which the reducer never stores.     *)
(***************************************************************************)
Bool(x) == [t |-> "boolean", b |-> x, n |-> 0, s |-> ""]

Num(x) == [t |-> "number", b |-> FALSE, n |-> x, s |-> ""]

Str(x) == [t |-> "string", b |-> FALSE, n |-> 0, s |-> x]

Null == [t |-> "null", b |-> FALSE, n |-> 0, s |-> ""]

Undefined == [t |-> "undefined", b |-> FALSE, n |-> 0, s |-> ""]

Obj(id, index) == [t |-> "object", b |-> FALSE, n |-> index, s |-> id]

\* !!data
Truthy(data) ==
  CASE data.t = "boolean" -> data.b
    [] data.t = "number" -> data.n # 0
    [] data.t = "string" -> data.s # ""
    [] data.t = "object" -> TRUE
    [] OTHER -> FALSE

\* data.id and data.index (undefined on a primitive that has no such property)
PropId(data) == IF data.t = "object" THEN Str(data.s) ELSE Undefined

PropIndex(data) == IF data.t = "object" THEN Num(data.n) ELSE Undefined

\* Reading a property of null or undefined throws a TypeError.
ThrowsOnProp(data) == data.t \in {"null", "undefined"}

(***************************************************************************)
(* UIType, StateProperty, Action                                           *)
(***************************************************************************)
MOBILE == 0

DESKTOP == 1

SCROLL == 2

StateProperty ==
  { "caninsertautomaticad", "canshowbookend", "canshownavigationoverlayhint",
    "canshowpreviouspagehelp", "canshowsharinguis", "canshowsystemlayerbuttons",
    "accessstate", "adstate", "bookendstate", "desktopstate", "hassidebarstate",
    "infodialogstate", "landscapestate", "mutedstate", "pageaudiostate",
    "pausedstate", "rtlstate", "sharemenustate", "sidebarstate",
    "supportedbrowserstate", "storyaudiostate", "uistate",
    "consentid", "currentpageid", "currentpageindex" }

Action ==
  { "setcurrentpageid", "setconsentid", "toggleaccess", "togglead",
    "togglebookend", "toggleinfodialog", "togglelandscape", "togglemuted",
    "togglepagehasaudio", "togglepaused", "togglertl", "togglesharemenu",
    "togglesidebar", "togglehassidebar", "togglesupportedbrowser",
    "togglestoryhasaudio", "toggleui" }

\* Object.assign({}, state, partial)
Assign(state, partial) ==
  [k \in DOMAIN state \cup DOMAIN partial |->
     IF k \in DOMAIN partial THEN partial[k] ELSE state[k]]

\* getDefaultState_(): the hard-coded default state
getDefaultState_ ==
  [ caninsertautomaticad |-> Bool(TRUE),
    canshowbookend |-> Bool(TRUE),
    canshownavigationoverlayhint |-> Bool(TRUE),
    canshowpreviouspagehelp |-> Bool(TRUE),
    canshowsharinguis |-> Bool(TRUE),
    canshowsystemlayerbuttons |-> Bool(TRUE),
    accessstate |-> Bool(FALSE),
    adstate |-> Bool(FALSE),
    bookendstate |-> Bool(FALSE),
    desktopstate |-> Bool(FALSE),
    infodialogstate |-> Bool(FALSE),
    landscapestate |-> Bool(FALSE),
    mutedstate |-> Bool(TRUE),
    pageaudiostate |-> Bool(FALSE),
    pausedstate |-> Bool(FALSE),
    rtlstate |-> Bool(FALSE),
    sharemenustate |-> Bool(FALSE),
    sidebarstate |-> Bool(FALSE),
    supportedbrowserstate |-> Bool(TRUE),
    storyaudiostate |-> Bool(FALSE),
    hassidebarstate |-> Bool(FALSE),
    uistate |-> Num(MOBILE),
    consentid |-> Null,
    currentpageid |-> Str(""),
    currentpageindex |-> Num(0) ]

(***************************************************************************)
(* The reducer.  actions(state, action, data) is the new state; it is only *)
(* evaluated when ActionThrows(action, data) is false.                     *)
(***************************************************************************)
ActionThrows(action, data) == action = "setcurrentpageid" /\ ThrowsOnProp(data)

\* A TOGGLE_ACCESS that forgets the paired pausedstate.
ToggleAccessOnly(state, data) ==
  IF state["accessstate"] = data
  THEN state
  ELSE Assign(state, [accessstate |-> Bool(Truthy(data))])

\* A TOGGLE_ACCESS without the guard on the current accessstate.
ToggleAccessUnguarded(state, data) ==
  Assign(state, [accessstate |-> Bool(Truthy(data)),
                 pausedstate |-> Bool(Truthy(data))])

ToggleAccess(state, data) ==
  IF state["accessstate"] = data
  THEN state
  ELSE Assign(state, [accessstate |-> Bool(Truthy(data)),
                      pausedstate |-> Bool(Truthy(data))])

\* A TOGGLE_BOOKEND that does not look at canshowbookend.
ToggleBookendUngated(state, data) ==
  Assign(state, [bookendstate |-> Bool(Truthy(data))])

ToggleBookend(state, data) ==
  IF ~Truthy(state["canshowbookend"])
  THEN state
  ELSE Assign(state, [bookendstate |-> Bool(Truthy(data))])

\* A TOGGLE_INFO_DIALOG with the guard TOGGLE_ACCESS and TOGGLE_SIDEBAR have.
ToggleInfoDialogGuarded(state, data) ==
  IF state["infodialogstate"] = data
  THEN state
  ELSE Assign(state, [infodialogstate |-> Bool(Truthy(data)),
                      pausedstate |-> Bool(Truthy(data))])

ToggleInfoDialog(state, data) ==
  Assign(state, [infodialogstate |-> Bool(Truthy(data)),
                 pausedstate |-> Bool(Truthy(data))])

\* A TOGGLE_SIDEBAR that flips the sidebar instead of setting it to data.
ToggleSidebarFlips(state, data) ==
  Assign(state, [pausedstate |-> Bool(~Truthy(state["sidebarstate"])),
                 sidebarstate |-> Bool(~Truthy(state["sidebarstate"]))])

\* A TOGGLE_SIDEBAR that leaves pausedstate as it was.
ToggleSidebarOnly(state, data) ==
  IF state["sidebarstate"] = data
  THEN state
  ELSE Assign(state, [sidebarstate |-> Bool(Truthy(data))])

ToggleSidebar(state, data) ==
  IF state["sidebarstate"] = data
  THEN state
  ELSE Assign(state, [pausedstate |-> Bool(Truthy(data)),
                      sidebarstate |-> Bool(Truthy(data))])

\* A TOGGLE_SHARE_MENU that does not pause.
ToggleShareMenuOnly(state, data) ==
  Assign(state, [sharemenustate |-> Bool(Truthy(data))])

ToggleShareMenu(state, data) ==
  Assign(state, [pausedstate |-> Bool(Truthy(data)),
                 sharemenustate |-> Bool(Truthy(data))])

\* A TOGGLE_UI that derives desktopstate from the truthiness of the payload.
ToggleUiTruthy(state, data) ==
  Assign(state, [desktopstate |-> Bool(Truthy(data)),
                 uistate |-> data])

ToggleUi(state, data) ==
  Assign(state, [desktopstate |-> Bool(data = Num(DESKTOP)),
                 uistate |-> data])

\* A CHANGE_PAGE that forgets the page index.
ChangePageIdOnly(state, data) == Assign(state, [currentpageid |-> PropId(data)])

ChangePage(state, data) ==
  Assign(state, [currentpageid |-> PropId(data),
                 currentpageindex |-> PropIndex(data)])

\* A SET_CONSENT_ID that writes a property the state does not have.
SetConsentIdTypo(state, data) == Assign(state, [consentId |-> data])

SetConsentId(state, data) == Assign(state, [consentid |-> data])

\* A default case that returns the default state instead of the state.
UnknownActionResets(state, action, data) == getDefaultState_

\* default: dev().error(...) and the state is returned as it is
UnknownAction(state, action, data) == state

actions(state, action, data) ==
  CASE action = "toggleaccess" -> ToggleAccess(state, data)
    [] action = "togglead" -> Assign(state, [adstate |-> Bool(Truthy(data))])
    [] action = "togglebookend" -> ToggleBookend(state, data)
    [] action = "toggleinfodialog" -> ToggleInfoDialog(state, data)
    [] action = "togglestoryhasaudio" ->
         Assign(state, [storyaudiostate |-> Bool(Truthy(data))])
    [] action = "togglelandscape" ->
         Assign(state, [landscapestate |-> Bool(Truthy(data))])
    [] action = "togglemuted" ->
         Assign(state, [mutedstate |-> Bool(Truthy(data))])
    [] action = "togglepagehasaudio" ->
         Assign(state, [pageaudiostate |-> Bool(Truthy(data))])
    [] action = "togglepaused" ->
         Assign(state, [pausedstate |-> Bool(Truthy(data))])
    [] action = "togglertl" -> Assign(state, [rtlstate |-> Bool(Truthy(data))])
    [] action = "togglesidebar" -> ToggleSidebar(state, data)
    [] action = "togglehassidebar" ->
         Assign(state, [hassidebarstate |-> Bool(Truthy(data))])
    [] action = "togglesupportedbrowser" ->
         Assign(state, [supportedbrowserstate |-> Bool(Truthy(data))])
    [] action = "togglesharemenu" -> ToggleShareMenu(state, data)
    [] action = "toggleui" -> ToggleUi(state, data)
    [] action = "setconsentid" -> SetConsentId(state, data)
    [] action = "setcurrentpageid" -> ChangePage(state, data)
    [] OTHER -> UnknownAction(state, action, data)

(***************************************************************************)
(* Construction: the default state overlaid with the embed mode's          *)
(* overrides.                                                              *)
(***************************************************************************)
EmbedMode == {"DEFAULT", "NAME_TBD", "NO_SHARING"}

getEmbedOverrides_(embedMode) ==
  CASE embedMode = "NAME_TBD" ->
         [ caninsertautomaticad |-> Bool(FALSE),
           canshowbookend |-> Bool(FALSE),
           canshownavigationoverlayhint |-> Bool(FALSE),
           canshowpreviouspagehelp |-> Bool(TRUE),
           canshowsystemlayerbuttons |-> Bool(FALSE),
           mutedstate |-> Bool(FALSE) ]
    [] embedMode = "NO_SHARING" ->
         [ canshowsharinguis |-> Bool(FALSE) ]
    [] OTHER -> << >>

\* A constructor that lets the defaults override the embed mode's values.
constructorDefaultsLast(embedMode) ==
  Assign(getEmbedOverrides_(embedMode), getDefaultState_)

constructor(embedMode) ==
  Assign(getDefaultState_, getEmbedOverrides_(embedMode))

\* A key check that accepts every key.
hasOwnAlways(state, key) == TRUE

\* hasOwn(this.state_, key)
hasOwn(state, key) == key \in DOMAIN state

\* obj[key]: undefined when obj has no such property
Read(obj, key) == IF key \in DOMAIN obj THEN obj[key] ELSE Undefined

\* A get that returns nothing.
getNothing(state, key) == Undefined

\* get(key): the value, or undefined (and a dev error) for an unknown key
get(state, key) == IF ~hasOwn(state, key) THEN Undefined ELSE Read(state, key)

\* A dispatch that notifies without comparing the old and the new value.
ValueChangedAlways(oldState, state, key) == TRUE

\* oldState[key] !== this.state_[key]
ValueChanged(oldState, state, key) == Read(oldState, key) # Read(state, key)

(***************************************************************************)
(* Listeners.  A listener function either only receives the value, or      *)
(* calls dispatch from inside its callback: with a fixed payload, or with  *)
(* the negation of the value it received.                                  *)
(***************************************************************************)
Recorder == [does |-> "nothing", action |-> "", data |-> Undefined, negate |-> FALSE]

Dispatcher(a, d) == [does |-> "dispatch", action |-> a, data |-> d, negate |-> FALSE]

Flipper(a) == [does |-> "dispatch", action |-> a, data |-> Undefined, negate |-> TRUE]

None == [action |-> "", data |-> Undefined, set |-> FALSE]

\* The dispatch call the body of listener fn makes when invoked with value.
ListenerCall(fn, value) ==
  IF fn.does = "dispatch"
  THEN [action |-> fn.action,
        data |-> IF fn.negate THEN Bool(~Truthy(value)) ELSE fn.data,
        set |-> TRUE]
  ELSE None

VARIABLES
  win_,        \* this.win_: the embed mode its location.hash parses to
  state_,      \* this.state_
  listeners_,  \* this.listeners_: <<[key, handlers]>> in insertion order
  stack,       \* the dispatch calls in progress, innermost last
  pending,     \* the dispatch call a listener just invoked is about to make
  budget,      \* top-level calls the environment may still make
  call,        \* history: the current (or last) top-level call
  pre,         \* history: the snapshot when that call began
  prel,        \* history: this.listeners_ when that call began
  log,         \* history: the listener invocations made during that call
  ndisp,       \* history: dispatch calls made during that call, nested included
  last,        \* history: the most recent dispatch call, [action, data]
  inv,         \* history: per listener id, invocations made by dispatch
  chg,         \* history: per listener id, changes of its key since it subscribed
  outcome      \* history: how the current top-level call ended

vars == <<win_, state_, listeners_, stack, pending, budget, call, pre, prel,
          log, ndisp, last, inv, chg, outcome>>

MaxCalls == 2

MaxRounds == 2

Idle == stack = << >> /\ ~pending.set

Top == stack[Len(stack)]

\* Object.keys(this.listeners_)
ObjectKeys(listeners) == [i \in 1..Len(listeners) |-> listeners[i].key]

\* this.listeners_[key]: the handlers of the key's Observable (empty if none)
Handlers(listeners, key) ==
  IF \E i \in 1..Len(listeners) : listeners[i].key = key
  THEN listeners[CHOOSE i \in 1..Len(listeners) : listeners[i].key = key].handlers
  ELSE << >>

\* The key listener id is subscribed to.
KeyOf(listeners, id) ==
  listeners[CHOOSE i \in 1..Len(listeners) :
              \E j \in 1..Len(listeners[i].handlers) :
                listeners[i].handlers[j].id = id].key

NoCall == [op |-> "none", name |-> "", data |-> Undefined, cti |-> FALSE,
           ret |-> Undefined, errors |-> 0]

Changed(old, new) ==
  {k \in DOMAIN old \cup DOMAIN new : Read(old, k) # Read(new, k)}

\* An exception leaves dispatch and every caller up to the top-level call.
Throw(name) ==
  /\ stack' = << >>
  /\ pending' = None
  /\ outcome' = name

(***************************************************************************)
(* dispatch(action, data), lines 313-314: copy the old state, run the      *)
(* reducer, replace this.state_; the forEach over Object.keys starts.      *)
(* base is the value of `call` this step starts from.                      *)
(***************************************************************************)
DispatchEnter(action, data, n, base) ==
  /\ ndisp' = n + 1
  /\ last' = [action |-> action, data |-> data]
  /\ UNCHANGED <<win_, listeners_, inv>>
  /\ IF ActionThrows(action, data)
     THEN /\ Throw("TypeError")
          /\ call' = base
          /\ UNCHANGED <<state_, chg>>
     ELSE LET oldState == state_
              new == actions(state_, action, data)
          IN /\ state_' = new
             /\ call' = [base EXCEPT !.errors =
                           IF action \in Action THEN @ ELSE @ + 1]
             /\ chg' = [id \in DOMAIN chg |->
                          IF KeyOf(listeners_, id) \in Changed(oldState, new)
                          THEN chg[id] + 1 ELSE chg[id]]
             /\ pending' = None
             /\ outcome' = "running"
             /\ stack' = Append(stack,
                  [oldState |-> oldState, keys |-> ObjectKeys(listeners_),
                   ki |-> 1, hi |-> 0, event |-> Undefined, seq |-> n + 1,
                   action |-> action, data |-> data,
                   changed |-> Changed(oldState, new), prev |-> last])

\* A top-level dispatch(action, data).
Dispatch(action, data) ==
  /\ Idle
  /\ budget > 0
  /\ budget' = budget - 1
  /\ pre' = state_
  /\ prel' = listeners_
  /\ log' = << >>
  /\ DispatchEnter(action, data, 0,
       [NoCall EXCEPT !.op = "dispatch", !.name = action, !.data = data])

\* Lines 316-317: the forEach callback for the next key tests
\* oldState[key] !== this.state_[key]; line 318 evaluates this.state_[key]
\* and enters fire.
NotifyKey ==
  /\ ~pending.set
  /\ stack # << >>
  /\ Top.hi = 0
  /\ Top.ki <= Len(Top.keys)
  /\ LET key == Top.keys[Top.ki]
     IN stack' = [stack EXCEPT ![Len(stack)] =
          IF ValueChanged(Top.oldState, state_, key)
          THEN [Top EXCEPT !.hi = 1, !.event = Read(state_, key)]
          ELSE [Top EXCEPT !.ki = @ + 1]]
  /\ UNCHANGED <<win_, state_, listeners_, pending, budget, call, pre, prel,
                 log, ndisp, last, inv, chg, outcome>>

\* Observable.fire(event): the next handler of the key is invoked with event.
FireListener ==
  /\ ~pending.set
  /\ stack # << >>
  /\ Top.hi >= 1
  /\ LET key == Top.keys[Top.ki]
         handlers == Handlers(listeners_, key)
         h == handlers[Top.hi]
     IN /\ log' = Append(log, [id |-> h.id, key |-> key, value |-> Top.event,
                               by |-> Top.seq, changed |-> Top.changed,
                               action |-> Top.action, data |-> Top.data,
                               prev |-> Top.prev])
        /\ inv' = [inv EXCEPT ![h.id] = @ + 1]
        /\ stack' = [stack EXCEPT ![Len(stack)] =
             IF Top.hi < Len(handlers)
             THEN [Top EXCEPT !.hi = @ + 1]
             ELSE [Top EXCEPT !.hi = 0, !.ki = @ + 1]]
        /\ pending' = ListenerCall(h.fn, Top.event)
  /\ UNCHANGED <<win_, state_, listeners_, budget, call, pre, prel, ndisp,
                 last, chg, outcome>>

\* The dispatch calls in progress that began with this action, this payload
\* and the snapshot this.state_ is now: the calls a dispatch(action, data)
\* made now would repeat.
Repeats(action, data) ==
  Cardinality({i \in 1..Len(stack) : /\ stack[i].action = action
                                     /\ stack[i].data = data
                                     /\ stack[i].oldState = state_})

\* Frame g is a dispatch call that began with the action, the payload and the
\* snapshot frame f began with.  g is nested in f and the listeners are
\* deterministic, so g repeats what f did, the nested call included.
SameCall(f, g) ==
  /\ f.action = g.action
  /\ f.data = g.data
  /\ f.oldState = g.oldState

\* A dispatch call in progress, or the one the listener just invoked is
\* about to make, repeats a dispatch call it is nested in.
Recurring ==
  \/ \E i, j \in 1..Len(stack) : i < j /\ SameCall(stack[i], stack[j])
  \/ pending.set /\ Repeats(pending.action, pending.data) >= 1

\* The body of the listener just invoked calls dispatch, at any depth of
\* nesting.  A call that repeats a call it is nested in starts a recursion
\* without end, each round of which does what the round before did: the
\* model follows MaxRounds rounds of it and the engine ends it (StackOverflow).
ListenerDispatch ==
  /\ pending.set
  /\ Repeats(pending.action, pending.data) < MaxRounds
  /\ UNCHANGED <<budget, pre, prel, log>>
  /\ DispatchEnter(pending.action, pending.data, ndisp, call)

\* In a recursion without end the engine's call stack is exhausted at some
\* call, at a depth the engine decides: a RangeError leaves every dispatch
\* call in progress and this.state_ is what it was at that call.  The
\* history variables then hold the first rounds of the recursion.
StackOverflow ==
  /\ Recurring
  /\ Throw("RangeError")
  /\ UNCHANGED <<win_, state_, listeners_, budget, call, pre, prel, log, ndisp,
                 last, inv, chg>>

\* Line 321: the forEach is over and dispatch returns.
Return ==
  /\ ~pending.set
  /\ stack # << >>
  /\ Top.hi = 0
  /\ Top.ki > Len(Top.keys)
  /\ stack' = SubSeq(stack, 1, Len(stack) - 1)
  /\ outcome' = IF Len(stack) = 1 THEN "returned" ELSE outcome
  /\ UNCHANGED <<win_, state_, listeners_, pending, budget, call, pre, prel,
                 log, ndisp, last, inv, chg>>

\* listeners_[key].add(listener), creating the key's Observable when needed.
AddListener(listeners, key, h) ==
  IF \E i \in 1..Len(listeners) : listeners[i].key = key
  THEN [i \in 1..Len(listeners) |->
          IF listeners[i].key = key
          THEN [listeners[i] EXCEPT !.handlers = Append(@, h)]
          ELSE listeners[i]]
  ELSE Append(listeners, [key |-> key, handlers |-> <<h>>])

\* subscribe(key, listener, callToInitialize)
Subscribe(key, fn, callToInitialize) ==
  /\ Idle
  /\ budget > 0
  /\ budget' = budget - 1
  /\ pre' = state_
  /\ prel' = listeners_
  /\ ndisp' = 0
  /\ UNCHANGED <<win_, state_, stack, last>>
  /\ IF ~hasOwn(state_, key)
     THEN /\ call' = [NoCall EXCEPT !.op = "subscribe", !.name = key,
                        !.cti = callToInitialize, !.errors = 1]
          /\ log' = << >>
          /\ pending' = None
          /\ outcome' = "returned"
          /\ UNCHANGED <<listeners_, inv, chg>>
     ELSE LET id == Len(inv) + 1
          IN /\ call' = [NoCall EXCEPT !.op = "subscribe", !.name = key,
                           !.cti = callToInitialize]
             /\ listeners_' = AddListener(listeners_, key, [id |-> id, fn |-> fn])
             /\ inv' = Append(inv, 0)
             /\ chg' = Append(chg, 0)
             /\ IF callToInitialize
                THEN /\ log' = <<[id |-> id, key |-> key,
                                  value |-> get(state_, key), by |-> 0,
                                  changed |-> {}, action |-> "",
                                  data |-> Undefined, prev |-> last]>>
                     /\ pending' = ListenerCall(fn, get(state_, key))
                ELSE /\ log' = << >>
                     /\ pending' = None
             /\ outcome' = IF pending'.set THEN "running" ELSE "returned"

\* get(key) called by a client of the store.
Get(key) ==
  /\ Idle
  /\ budget > 0
  /\ budget' = budget - 1
  /\ pre' = state_
  /\ prel' = listeners_
  /\ log' = << >>
  /\ ndisp' = 0
  /\ call' = [NoCall EXCEPT !.op = "get", !.name = key, !.ret = get(state_, key),
                !.errors = IF hasOwn(state_, key) THEN 0 ELSE 1]
  /\ outcome' = "returned"
  /\ UNCHANGED <<win_, state_, listeners_, stack, pending, last, inv, chg>>

\* The store right after new AmpStoryStoreService(win) in embedMode.
Constructed(embedMode, calls) ==
  /\ win_ = embedMode
  /\ state_ = constructor(embedMode)
  /\ listeners_ = << >>
  /\ stack = << >>
  /\ pending = None
  /\ budget = calls
  /\ call = NoCall
  /\ pre = state_
  /\ prel = << >>
  /\ log = << >>
  /\ ndisp = 0
  /\ last = [action |-> "", data |-> Undefined]
  /\ inv = << >>
  /\ chg = << >>
  /\ outcome = "returned"

(***************************************************************************)
(* The environment: the calls clients of the store make.  inputs are the   *)
(* <<action, data>> pairs dispatched, subs the <<key, listener,            *)
(* callToInitialize>> subscriptions made, gets the keys read.              *)
(***************************************************************************)
Calls(inputs, subs, gets) ==
  \/ \E i \in inputs : Dispatch(i[1], i[2])
  \/ \E s \in subs : Subscribe(s[1], s[2], s[3])
  \/ \E k \in gets : Get(k)

\* The steps of the dispatch calls in progress.
Steps ==
  \/ NotifyKey
  \/ FireListener
  \/ ListenerDispatch
  \/ StackOverflow
  \/ Return

(***************************************************************************)
(* Spec: any embed mode; every action of the enum and an unknown one, with *)
(* the payloads its callers pass and ill-typed ones; listeners on keys of  *)
(* every type and on an unknown key.                                       *)
(***************************************************************************)
Payloads(action) ==
  CASE action = "toggleui" -> {Num(MOBILE), Num(DESKTOP), Num(SCROLL), Bool(TRUE)}
    [] action = "setconsentid" -> {Null, Str("consent-1")}
    [] action = "setcurrentpageid" -> {Obj("page-2", 1), Bool(TRUE), Null}
    [] action \notin Action -> {Bool(TRUE), Undefined}
    [] OTHER -> {Bool(TRUE), Bool(FALSE), Num(1)}

Inputs == {i \in (Action \cup {"nosuchaction"}) \X
                 {Bool(TRUE), Bool(FALSE), Num(MOBILE), Num(DESKTOP), Num(SCROLL),
                  Str("consent-1"), Null, Undefined, Obj("page-2", 1)} :
             i[2] \in Payloads(i[1])}

WatchedKeys ==
  {"pausedstate", "mutedstate", "sidebarstate", "accessstate", "bookendstate",
   "desktopstate", "uistate", "consentid", "currentpageid", "currentpageindex",
   "canshowbookend", "nosuchstate"}

Subs ==
  (WatchedKeys \X {Recorder} \X BOOLEAN)
    \cup {<<"pausedstate", Dispatcher("togglemuted", Bool(FALSE)), TRUE>>,
          <<"pausedstate", Dispatcher("togglemuted", Bool(FALSE)), FALSE>>,
          <<"pausedstate", Flipper("togglepaused"), FALSE>>}

Gets == {"uistate", "mutedstate", "nosuchstate"}

Init == \E m \in EmbedMode : Constructed(m, MaxCalls)

Next ==
  \/ Calls(Inputs, Subs, Gets)
  \/ Steps

Spec == Init /\ [][Next]_vars

(***************************************************************************)
(* SpecNested: longer runs of the toggles that share pausedstate, with     *)
(* listeners that call dispatch from inside their callback.                *)
(***************************************************************************)
MaxNestedCalls == 3

NestedInputs ==
  {"toggleaccess", "togglesidebar", "togglepaused", "togglemuted",
   "toggleinfodialog"} \X {Bool(TRUE), Bool(FALSE)}

NestedSubs ==
  {<<"pausedstate", Recorder, FALSE>>,
   <<"mutedstate", Recorder, FALSE>>,
   <<"sidebarstate", Recorder, FALSE>>,
   <<"pausedstate", Dispatcher("togglemuted", Bool(FALSE)), FALSE>>,
   <<"pausedstate", Dispatcher("togglepaused", Bool(FALSE)), FALSE>>,
   <<"sidebarstate", Dispatcher("togglepaused", Bool(FALSE)), TRUE>>,
   <<"sidebarstate", Dispatcher("togglesidebar", Bool(TRUE)), FALSE>>,
   <<"pausedstate", Flipper("togglepaused"), FALSE>>}

InitNested == Constructed("DEFAULT", MaxNestedCalls)

NextNested ==
  \/ Calls(NestedInputs, NestedSubs, {"pausedstate"})
  \/ Steps

SpecNested == InitNested /\ [][NextNested]_vars

(***************************************************************************)
(* SpecModal: the toggles of the info dialog and the share menu, which set *)
(* pausedstate without a guard, with listeners on the keys they set.       *)
(***************************************************************************)
ModalInputs ==
  {"toggleinfodialog", "togglesharemenu", "togglepaused"} \X {Bool(TRUE), Bool(FALSE)}

ModalSubs ==
  {<<"pausedstate", Recorder, FALSE>>,
   <<"infodialogstate", Recorder, FALSE>>,
   <<"sharemenustate", Recorder, TRUE>>,
   <<"pausedstate", Dispatcher("togglepaused", Bool(TRUE)), FALSE>>,
   <<"infodialogstate", Dispatcher("togglepaused", Bool(FALSE)), FALSE>>,
   <<"pausedstate", Flipper("toggleinfodialog"), FALSE>>}

NextModal ==
  \/ Calls(ModalInputs, ModalSubs, {"pausedstate", "infodialogstate"})
  \/ Steps

SpecModal == InitNested /\ [][NextModal]_vars

(***************************************************************************)
(* Properties                                                              *)
(***************************************************************************)
Ids == 1..Len(inv)

\* The invocations of listener id during the current top-level call.
Calls_(id) == {i \in 1..Len(log) : log[i].id = id}

\* A top-level dispatch has returned (or thrown) and it was the only
\* dispatch call: no listener called dispatch.
PlainDispatchDone == Idle /\ call.op = "dispatch" /\ ndisp = 1

\* C1: after a dispatch during which no listener called dispatch, a listener
\* subscribed to a key whose value differs between the snapshot before and
\* the snapshot after was invoked exactly once, with the new value, and a
\* listener subscribed to a key whose value is the same was not invoked.
C1_NotifiedOncePerChangedKey ==
  PlainDispatchDone =>
    \A id \in Ids :
      LET k == KeyOf(listeners_, id)
      IN IF pre[k] # state_[k]
         THEN /\ Cardinality(Calls_(id)) = 1
              /\ \A i \in Calls_(id) : log[i].value = state_[k] /\ log[i].key = k
         ELSE Calls_(id) = {}

\* A listener on a changed key was invoked once with the new value.
C1_Witness ==
  /\ PlainDispatchDone
  /\ \E id \in Ids :
       /\ pre[KeyOf(listeners_, id)] # state_[KeyOf(listeners_, id)]
       /\ Cardinality(Calls_(id)) = 1

\* Both accessstate and pausedstate hold the boolean b.
AccessAndPaused(b) ==
  state_["accessstate"] = Bool(b) /\ state_["pausedstate"] = Bool(b)

\* A top-level dispatch(TOGGLE_ACCESS, b) has returned and no listener
\* called dispatch in between.
AccessDispatched(b) ==
  /\ PlainDispatchDone
  /\ outcome = "returned"
  /\ call.name = "toggleaccess"
  /\ call.data = Bool(b)

\* C2 as stated: in any reachable state, after dispatch(TOGGLE_ACCESS, true)
\* both accessstate and pausedstate read true, and after
\* dispatch(TOGGLE_ACCESS, false) issued from that state both read false.
C2_AccessPairedInAnyState ==
  /\ AccessDispatched(TRUE) => AccessAndPaused(TRUE)
  /\ (/\ AccessDispatched(FALSE)
      /\ pre["accessstate"] = Bool(TRUE)
      /\ pre["pausedstate"] = Bool(TRUE)) => AccessAndPaused(FALSE)

\* C2 as amended: after dispatch(TOGGLE_ACCESS, true) issued in a state
\* where accessstate is not already true, both accessstate and pausedstate
\* read true, and after dispatch(TOGGLE_ACCESS, false) issued from that
\* state both read false; where accessstate is already true,
\* dispatch(TOGGLE_ACCESS, true) changes no key, so pausedstate keeps the
\* value it had (read before any listener dispatches again).
C2_AccessPaired ==
  /\ (AccessDispatched(TRUE) /\ pre["accessstate"] # Bool(TRUE))
       => AccessAndPaused(TRUE)
  /\ (AccessDispatched(TRUE) /\ pre["accessstate"] = Bool(TRUE))
       => state_ = pre
  /\ (/\ AccessDispatched(FALSE)
      /\ pre["accessstate"] = Bool(TRUE)
      /\ pre["pausedstate"] = Bool(TRUE)) => AccessAndPaused(FALSE)

\* dispatch(TOGGLE_ACCESS, false) from the state with both true made both false.
C2_Witness ==
  /\ AccessDispatched(FALSE)
  /\ pre["accessstate"] = Bool(TRUE)
  /\ pre["pausedstate"] = Bool(TRUE)
  /\ AccessAndPaused(FALSE)

\* C3: a dispatch call whose reducer step changed only pausedstate invokes
\* no listener subscribed to mutedstate, also when listeners on other keys
\* call dispatch themselves.
C3_ListenerScoping ==
  \A i \in 1..Len(log) :
    log[i].changed = {"pausedstate"} => log[i].key # "mutedstate"

\* The dispatch call (action, data) directly follows a dispatch call with
\* the same action and the same boolean payload.
Repeated(action, data, prev) ==
  /\ action = "togglesidebar"
  /\ data.t = "boolean"
  /\ prev = [action |-> action, data |-> data]

\* C4: a dispatch(TOGGLE_SIDEBAR, b) that directly follows a
\* dispatch(TOGGLE_SIDEBAR, b) with the same boolean b leaves every key of
\* the snapshot (pausedstate included) as it was and invokes no listener.
C4_SidebarIdempotent ==
  /\ \A j \in 1..Len(stack) :
       Repeated(stack[j].action, stack[j].data, stack[j].prev)
         => stack[j].changed = {}
  /\ \A i \in 1..Len(log) :
       log[i].by # 0 => ~Repeated(log[i].action, log[i].data, log[i].prev)

\* The second of two equal TOGGLE_SIDEBAR dispatches has gone through the
\* keys of the subscribed listeners and is about to return.
C4_Witness ==
  /\ stack # << >>
  /\ Repeated(Top.action, Top.data, Top.prev)
  /\ Top.keys # << >>
  /\ Top.ki > Len(Top.keys)
  /\ Top.oldState["sidebarstate"] = Bool(TRUE)
  /\ log = << >>

\* C5: a listener subscribed to key k is never invoked by dispatch more
\* times than the value of k has changed since it subscribed.
C5_AtMostOncePerChange ==
  \A id \in Ids : inv[id] <= chg[id]

\* C6: subscribe(key, listener, true) on a known key invokes that listener
\* exactly once, inside subscribe, with the value get(key) had before the
\* call, changes no key and invokes no other listener (whatever else
\* happens is done by a dispatch the listener makes); with callToInitialize
\* false subscribe invokes no listener at all.
C6_SubscribeCallsToInitialize ==
  (call.op = "subscribe" /\ call.name \in StateProperty) =>
    IF call.cti
    THEN /\ {i \in 1..Len(log) : log[i].by = 0} = {1}
         /\ log[1].id = Len(inv)
         /\ log[1].key = call.name
         /\ log[1].value = pre[call.name]
         /\ ndisp = 0 => (state_ = pre /\ Len(log) = 1)
    ELSE /\ log = << >>
         /\ state_ = pre
         /\ ndisp = 0
         /\ Idle

\* A subscribe with callToInitialize has invoked its listener with the value.
C6_Witness ==
  /\ call.op = "subscribe"
  /\ call.cti
  /\ call.name = "mutedstate"
  /\ Idle
  /\ Len(log) = 1
  /\ log[1].value = Bool(TRUE)
  /\ state_ = pre

\* C7: a dispatch of an action that is not in the Action enum changes no
\* key of the snapshot and invokes no listener, with any payload, and it
\* returns normally (after one dev error), so the store stays usable.
C7_UnknownActionIsNoOp ==
  /\ \A j \in 1..Len(stack) :
       stack[j].action \notin Action => stack[j].changed = {}
  /\ \A i \in 1..Len(log) : log[i].by # 0 => log[i].action \in Action
  /\ (Idle /\ call.op = "dispatch" /\ call.name \notin Action) =>
       /\ state_ = pre
       /\ log = << >>
       /\ outcome = "returned"
       /\ call.errors = 1

\* An unknown action was dispatched to a store that has a listener and
\* whose state differs from the default state.
C7_Witness ==
  /\ Idle
  /\ call.op = "dispatch"
  /\ call.name \notin Action
  /\ listeners_ # << >>
  /\ state_ # getDefaultState_
  /\ outcome = "returned"

\* C8: get of an unknown key returns undefined and changes nothing;
\* subscribe to an unknown key registers nothing, invokes nothing (also
\* with callToInitialize) and leaves the snapshot and the listener lists as
\* they were, so no listener is ever held or invoked for an unknown key.
C8_UnknownKeysAbsorbed ==
  /\ (call.op = "get" /\ call.name \notin StateProperty) =>
       /\ call.ret = Undefined
       /\ call.errors = 1
       /\ state_ = pre /\ listeners_ = prel /\ log = << >> /\ Idle
  /\ (call.op = "subscribe" /\ call.name \notin StateProperty) =>
       /\ state_ = pre /\ listeners_ = prel /\ log = << >> /\ Idle
       /\ call.errors = 1
  /\ \A i \in 1..Len(listeners_) : listeners_[i].key \in StateProperty
  /\ \A i \in 1..Len(log) : log[i].key \in StateProperty

\* subscribe(unknown key, listener, true) was called on a store that holds
\* a listener already.
C8_Witness ==
  /\ call.op = "subscribe"
  /\ call.name \notin StateProperty
  /\ call.cti
  /\ prel # << >>
  /\ listeners_ = prel
  /\ log = << >>

\* The value the embed mode's override gives key k, else the default value.
Merged(embedMode, k) ==
  IF k \in DOMAIN getEmbedOverrides_(embedMode)
  THEN getEmbedOverrides_(embedMode)[k]
  ELSE getDefaultState_[k]

\* C9: right after construction, in each embed mode, get(k) of every state
\* key k is the embed mode's override of k if it has one and the default
\* value otherwise.
C9_InitialState ==
  call.op = "none" =>
    /\ \A k \in StateProperty : get(state_, k) = Merged(win_, k)
    /\ win_ = "DEFAULT" =>
         /\ get(state_, "uistate") = Num(MOBILE)
         /\ get(state_, "mutedstate") = Bool(TRUE)
         /\ get(state_, "canshowbookend") = Bool(TRUE)
    /\ win_ = "NAME_TBD" =>
         /\ get(state_, "canshowbookend") = Bool(FALSE)
         /\ get(state_, "mutedstate") = Bool(FALSE)
    /\ win_ = "NO_SHARING" =>
         /\ get(state_, "canshowsharinguis") = Bool(FALSE)
         /\ \A k \in StateProperty \ {"canshowsharinguis"} :
              get(state_, k) = getDefaultState_[k]

\* A store just constructed in the NAME_TBD embed mode.
C9_Witness ==
  /\ call.op = "none"
  /\ win_ = "NAME_TBD"
  /\ get(state_, "canshowbookend") = Bool(FALSE)
  /\ get(state_, "canshowpreviouspagehelp") = Bool(TRUE)

\* C10: the snapshot, and every copy dispatch takes of it, has exactly the
\* keys of StateProperty after any sequence of dispatches, so get of a
\* known key never reports an unknown key.
C10_KeySetConstant ==
  /\ DOMAIN state_ = StateProperty
  /\ \A j \in 1..Len(stack) : DOMAIN stack[j].oldState = StateProperty
  /\ (call.op = "get" /\ call.name \in StateProperty) => call.errors = 0

\* Two dispatches were made, the last one of SET_CONSENT_ID.
C10_Witness ==
  /\ Idle
  /\ budget = 0
  /\ call.op = "dispatch"
  /\ call.name = "setconsentid"
  /\ state_ # pre
  /\ pre # constructor(win_)

\* C11: every call to dispatch completes (returns to its caller), in every
\* reachable state, with every payload and every set of registered
\* listeners, those that call dispatch included: no call ends by throwing to
\* its caller (a TypeError of the reducer, a RangeError of the exhausted call
\* stack), and no dispatch call is nested in a dispatch call it repeats
\* (such a call nests again and again until the call stack is exhausted).
C11_DispatchCompletes ==
  /\ outcome \notin {"TypeError", "RangeError"}
  /\ \A i, j \in 1..Len(stack) : i < j => ~SameCall(stack[i], stack[j])

\* The payloads of the type the action is documented to take.
WellTyped(action, data) ==
  CASE action = "toggleui" -> data \in {Num(MOBILE), Num(DESKTOP), Num(SCROLL)}
    [] action = "setconsentid" -> data.t \in {"string", "null"}
    [] action = "setcurrentpageid" -> data.t = "object"
    [] OTHER -> data.t = "boolean"

\* The rule table: the flag a toggle sets.
FlagOf(action) ==
  CASE action = "toggleaccess" -> "accessstate"
    [] action = "togglead" -> "adstate"
    [] action = "togglebookend" -> "bookendstate"
    [] action = "toggleinfodialog" -> "infodialogstate"
    [] action = "togglestoryhasaudio" -> "storyaudiostate"
    [] action = "togglelandscape" -> "landscapestate"
    [] action = "togglemuted" -> "mutedstate"
    [] action = "togglepagehasaudio" -> "pageaudiostate"
    [] action = "togglepaused" -> "pausedstate"
    [] action = "togglertl" -> "rtlstate"
    [] action = "togglesidebar" -> "sidebarstate"
    [] action = "togglehassidebar" -> "hassidebarstate"
    [] action = "togglesupportedbrowser" -> "supportedbrowserstate"
    [] action = "togglesharemenu" -> "sharemenustate"

\* The rule table: the toggles that set pausedstate along with their flag.
Pausing == {"toggleaccess", "toggleinfodialog", "togglesidebar", "togglesharemenu"}

\* The rule table: the keys an action sets.
SetKeys(action) ==
  CASE action = "toggleui" -> {"desktopstate", "uistate"}
    [] action = "setcurrentpageid" -> {"currentpageid", "currentpageindex"}
    [] action = "setconsentid" -> {"consentid"}
    [] action \in Pausing -> {FlagOf(action), "pausedstate"}
    [] OTHER -> {FlagOf(action)}

\* The rule table: the value a key set by the action gets.
SetValue(action, data, k) ==
  CASE k = "desktopstate" -> Bool(data = Num(DESKTOP))
    [] k = "currentpageid" -> Str(data.s)
    [] k = "currentpageindex" -> Num(data.n)
    [] OTHER -> data

\* The rule table: the cases in which an action is a no-op.
Guarded(old, action, data) ==
  \/ action \in {"toggleaccess", "togglesidebar"} /\ old[FlagOf(action)] = data
  \/ action = "togglebookend" /\ old["canshowbookend"] = Bool(FALSE)

CanFlags ==
  {"caninsertautomaticad", "canshowbookend", "canshownavigationoverlayhint",
   "canshowpreviouspagehelp", "canshowsharinguis", "canshowsystemlayerbuttons"}

\* The innermost dispatch call has replaced the snapshot and tested no key yet.
Fresh == stack # << >> /\ Top.ki = 1 /\ Top.hi = 0 /\ ~pending.set

\* C12: for every action of the enum and every well-typed payload, the
\* reducer step of a dispatch call (nested ones included) changes no key
\* outside the keys the rule table lets the action set, the snapshot it
\* installs holds the table's value at those keys (the old value where the
\* table makes the action a no-op) and the old value at every other key;
\* the six can* flags keep the value they were constructed with under every
\* dispatch, well-typed or not.
C12_ReducerFollowsRuleTable ==
  /\ \A j \in 1..Len(stack) :
       (stack[j].action \in Action /\ WellTyped(stack[j].action, stack[j].data))
         => stack[j].changed \subseteq SetKeys(stack[j].action)
  /\ (Fresh /\ Top.action \in Action /\ WellTyped(Top.action, Top.data)) =>
       \A k \in StateProperty :
         state_[k] = IF k \in SetKeys(Top.action)
                        /\ ~Guarded(Top.oldState, Top.action, Top.data)
                     THEN SetValue(Top.action, Top.data, k)
                     ELSE Top.oldState[k]
  /\ \A j \in 1..Len(stack) : stack[j].changed \cap CanFlags = {}
  /\ \A k \in CanFlags : state_[k] = constructor(win_)[k]

\* A CHANGE_PAGE has just replaced a snapshot earlier dispatches had changed,
\* setting both the page id and the page index.
C12_Witness ==
  /\ Fresh
  /\ Top.action = "setcurrentpageid"
  /\ Top.changed = {"currentpageid", "currentpageindex"}
  /\ state_["currentpageindex"] = Num(1)
  /\ Top.oldState # constructor(win_)

\* The dispatch call (action, data) is a TOGGLE_ACCESS with a boolean payload.
IsAccess(action, data) == action = "toggleaccess" /\ data.t = "boolean"

\* C13: a dispatch(TOGGLE_ACCESS, b) with boolean b, top-level or nested,
\* made where accessstate already equals b changes no key (pausedstate
\* keeps its value also when it differs from b) and invokes no listener;
\* made where accessstate differs from b it sets both accessstate and
\* pausedstate to b.
C13_AccessGuard ==
  /\ \A j \in 1..Len(stack) :
       IsAccess(stack[j].action, stack[j].data) =>
         IF stack[j].oldState["accessstate"] = stack[j].data
         THEN stack[j].changed = {}
         ELSE /\ "accessstate" \in stack[j].changed
              /\ stack[j].changed \subseteq {"accessstate", "pausedstate"}
  /\ (Fresh /\ IsAccess(Top.action, Top.data)) =>
       IF Top.oldState["accessstate"] = Top.data
       THEN state_ = Top.oldState
       ELSE state_["accessstate"] = Top.data /\ state_["pausedstate"] = Top.data
  /\ \A i \in 1..Len(log) :
       (log[i].by # 0 /\ IsAccess(log[i].action, log[i].data))
         => "accessstate" \in log[i].changed
  /\ (/\ call.op = "dispatch"
      /\ IsAccess(call.name, call.data)
      /\ pre["accessstate"] = call.data)
       => state_ = pre /\ log = << >> /\ ndisp = 1

\* A dispatch(TOGGLE_ACCESS, false) made where accessstate was false and
\* pausedstate true, with a pausedstate listener subscribed, has returned.
C13_Witness ==
  /\ Idle
  /\ call.op = "dispatch"
  /\ call.name = "toggleaccess"
  /\ call.data = Bool(FALSE)
  /\ pre["accessstate"] = Bool(FALSE)
  /\ pre["pausedstate"] = Bool(TRUE)
  /\ \E id \in Ids : KeyOf(listeners_, id) = "pausedstate"
  /\ state_["pausedstate"] = Bool(TRUE)
  /\ outcome = "returned"

\* The dispatch call (action, data) is a TOGGLE_INFO_DIALOG or a
\* TOGGLE_SHARE_MENU with a boolean payload.
IsModal(action, data) ==
  action \in {"toggleinfodialog", "togglesharemenu"} /\ data.t = "boolean"

\* The dispatch call of frame f found its flag equal to its payload already
\* and pausedstate different from it.
FlagSetPausedNot(f) ==
  /\ IsModal(f.action, f.data)
  /\ f.oldState[FlagOf(f.action)] = f.data
  /\ f.oldState["pausedstate"] # f.data

\* The forEach of frame f is past the given key.
PastKey(f, key) ==
  \E p \in 1..Len(f.keys) : f.keys[p] = key /\ f.ki > p

\* The dispatch call numbered seq has invoked every listener the given
\* listener lists hold for pausedstate, with value.
PausedNotified(listeners, seq, value) ==
  \A h \in 1..Len(Handlers(listeners, "pausedstate")) :
    \E i \in 1..Len(log) :
      /\ log[i].by = seq
      /\ log[i].id = Handlers(listeners, "pausedstate")[h].id
      /\ log[i].key = "pausedstate"
      /\ log[i].value = value

\* C14: the reducer step of a dispatch(TOGGLE_INFO_DIALOG, b) or a
\* dispatch(TOGGLE_SHARE_MENU, b) with boolean b, top-level or nested, sets
\* the flag and pausedstate to b in every state, and changes the one of the
\* two that differed from b also when the other equalled b already; both
\* hold b when a top-level call whose listeners do not dispatch has
\* returned; a call made where the flag equalled b and pausedstate did not
\* invokes every pausedstate listener with b.
C14_ModalTogglesUnguarded ==
  /\ (Fresh /\ IsModal(Top.action, Top.data)) =>
       /\ state_[FlagOf(Top.action)] = Top.data
       /\ state_["pausedstate"] = Top.data
  /\ \A j \in 1..Len(stack) :
       IsModal(stack[j].action, stack[j].data) =>
         stack[j].changed =
           {k \in {FlagOf(stack[j].action), "pausedstate"} :
              stack[j].oldState[k] # stack[j].data}
  /\ (PlainDispatchDone /\ IsModal(call.name, call.data)) =>
       /\ state_[FlagOf(call.name)] = call.data
       /\ state_["pausedstate"] = call.data
       /\ outcome = "returned"
  /\ \A j \in 1..Len(stack) :
       (FlagSetPausedNot(stack[j]) /\ PastKey(stack[j], "pausedstate"))
         => PausedNotified(listeners_, stack[j].seq, stack[j].data)
  /\ (/\ Idle
      /\ call.op = "dispatch"
      /\ outcome = "returned"
      /\ IsModal(call.name, call.data)
      /\ pre[FlagOf(call.name)] = call.data
      /\ pre["pausedstate"] # call.data)
       => PausedNotified(prel, 1, call.data)

\* A dispatch(TOGGLE_INFO_DIALOG, false) made where infodialogstate was
\* false and pausedstate true has invoked a pausedstate listener with false.
C14_Witness ==
  /\ Idle
  /\ call.op = "dispatch"
  /\ call.name = "toggleinfodialog"
  /\ call.data = Bool(FALSE)
  /\ pre["infodialogstate"] = Bool(FALSE)
  /\ pre["pausedstate"] = Bool(TRUE)
  /\ outcome = "returned"
  /\ \E i \in 1..Len(log) :
       log[i].by = 1 /\ log[i].key = "pausedstate" /\ log[i].value = Bool(FALSE)

\* C15: a dispatch(TOGGLE_BOOKEND, b) made where canshowbookend is false
\* changes no key and invokes no listener, whatever b is; made where
\* canshowbookend is true it sets bookendstate to the boolean b and
\* nothing else; a store constructed in the NAME_TBD embed mode has
\* canshowbookend and bookendstate false in every reachable state.
C15_BookendGated ==
  /\ win_ = "NAME_TBD" =>
       /\ state_["bookendstate"] = Bool(FALSE)
       /\ state_["canshowbookend"] = Bool(FALSE)
  /\ \A j \in 1..Len(stack) :
       stack[j].action = "togglebookend" =>
         IF stack[j].oldState["canshowbookend"] = Bool(FALSE)
         THEN stack[j].changed = {}
         ELSE stack[j].changed \subseteq {"bookendstate"}
  /\ (Fresh /\ Top.action = "togglebookend") =>
       IF Top.oldState["canshowbookend"] = Bool(FALSE)
       THEN state_ = Top.oldState
       ELSE Top.data.t = "boolean" => state_["bookendstate"] = Top.data
  /\ \A i \in 1..Len(log) :
       (log[i].by # 0 /\ log[i].action = "togglebookend")
         => log[i].changed = {"bookendstate"}
  /\ (/\ call.op = "dispatch"
      /\ call.name = "togglebookend"
      /\ pre["canshowbookend"] = Bool(FALSE))
       => state_ = pre /\ log = << >> /\ ndisp = 1

\* dispatch(TOGGLE_BOOKEND, true) has returned in a NAME_TBD store that has
\* a bookendstate listener.
C15_Witness ==
  /\ Idle
  /\ win_ = "NAME_TBD"
  /\ call.op = "dispatch"
  /\ call.name = "togglebookend"
  /\ call.data = Bool(TRUE)
  /\ \E id \in Ids : KeyOf(listeners_, id) = "bookendstate"
  /\ outcome = "returned"
  /\ log = << >>

\* The snapshot the rule table has the dispatch call of frame f install.
TableSnapshot(f) ==
  [k \in StateProperty |->
     IF k \in SetKeys(f.action) /\ ~Guarded(f.oldState, f.action, f.data)
     THEN SetValue(f.action, f.data, k)
     ELSE f.oldState[k]]

\* The innermost dispatch call is invoking a listener: what the listener
\* reads with get is state_.
Invoking == stack # << >> /\ Top.hi >= 1 /\ ~pending.set

\* C16 as stated: during every listener invocation made by a dispatch
\* call, get(k') returns, for every key k', the value the reducer step of
\* that call produced.
C16_ListenerSeesPostReducerState ==
  (Invoking /\ WellTyped(Top.action, Top.data)) =>
    \A k \in StateProperty : get(state_, k) = TableSnapshot(Top)[k]

\* C16 as amended: the snapshot is replaced before any listener is notified:
\* during a listener invocation made by a dispatch call, get(k') returns
\* for every key k' the value the reducer step of that call produced,
\* provided no listener invoked earlier by the same call has called
\* dispatch; then a listener on one of two keys the action changed reads
\* the new value of the other.
C16_ReplacedBeforeNotified ==
  (Invoking /\ Top.seq = ndisp /\ WellTyped(Top.action, Top.data)) =>
    /\ \A k \in StateProperty : get(state_, k) = TableSnapshot(Top)[k]
    /\ \A k \in Top.changed : get(state_, k) # Top.oldState[k]
    /\ Top.keys[Top.ki] \in Top.changed
    /\ Top.event = TableSnapshot(Top)[Top.keys[Top.ki]]

\* A sidebarstate listener is being invoked by a TOGGLE_SIDEBAR(true) that
\* changed sidebarstate and pausedstate, and reads pausedstate true.
C16_Witness ==
  /\ Invoking
  /\ Top.seq = ndisp
  /\ Top.action = "togglesidebar"
  /\ Top.keys[Top.ki] = "sidebarstate"
  /\ Top.changed = {"pausedstate", "sidebarstate"}
  /\ Top.oldState["pausedstate"] = Bool(FALSE)
  /\ get(state_, "pausedstate") = Bool(TRUE)

\* C17: in every reachable state desktopstate is a boolean that is true
\* exactly when uistate is UIType.DESKTOP; a freshly constructed store has
\* uistate MOBILE and desktopstate false in every embed mode; only TOGGLE_UI
\* changes either key, and TOGGLE_UI(t) sets uistate to t.
C17_DesktopIffUiDesktop ==
  /\ state_["desktopstate"] = Bool(state_["uistate"] = Num(DESKTOP))
  /\ call.op = "none" =>
       /\ state_["uistate"] = Num(MOBILE)
       /\ state_["desktopstate"] = Bool(FALSE)
  /\ \A j \in 1..Len(stack) :
       stack[j].changed \cap {"desktopstate", "uistate"} # {}
         => stack[j].action = "toggleui"
  /\ (Fresh /\ Top.action = "toggleui") => state_["uistate"] = Top.data

\* TOGGLE_UI(SCROLL) was dispatched to a store in the desktop UI.
C17_Witness ==
  /\ Idle
  /\ call.op = "dispatch"
  /\ call.name = "toggleui"
  /\ call.data = Num(SCROLL)
  /\ pre["uistate"] = Num(DESKTOP)
  /\ pre["desktopstate"] = Bool(TRUE)
  /\ state_["desktopstate"] = Bool(FALSE)

\* A modal UI (paywall, info dialog, sidebar, share menu) shows in snapshot s.
ModalOpen(s) ==
  \E k \in {"accessstate", "infodialogstate", "sidebarstate", "sharemenustate"} :
    s[k] = Bool(TRUE)

\* If a modal UI shows in snapshot s, playback is paused in s.
PausedIfModal(s) == ModalOpen(s) => s["pausedstate"] = Bool(TRUE)

\* C18 as stated: in every reachable state, if any of accessstate,
\* infodialogstate, sidebarstate or sharemenustate is true then pausedstate
\* is true.
C18_ModalImpliesPaused == PausedIfModal(state_)

\* C18 as amended: showing a modal UI pauses playback when it is shown: the
\* snapshot installed by a toggle of accessstate, infodialogstate,
\* sidebarstate or sharemenustate that changes its flag to true has
\* pausedstate true.  The snapshot does not keep pausedstate true while the
\* flag stays true: a reducer step that starts where every shown modal is
\* paused and ends where one is not is a TOGGLE_PAUSED, or a toggle of one
\* of the four flags, with a falsy payload.
C18_ShowingModalPauses ==
  /\ (/\ Fresh
      /\ Top.action \in Pausing
      /\ FlagOf(Top.action) \in Top.changed
      /\ state_[FlagOf(Top.action)] = Bool(TRUE))
       => state_["pausedstate"] = Bool(TRUE)
  /\ (Fresh /\ PausedIfModal(Top.oldState) /\ ~PausedIfModal(state_)) =>
       /\ Top.action \in Pausing \cup {"togglepaused"}
       /\ ~Truthy(Top.data)
  /\ call.op = "none" => ~ModalOpen(state_)

\* A TOGGLE_SHARE_MENU has just shown the share menu in a snapshot that was
\* not paused.
C18_Witness ==
  /\ Fresh
  /\ Top.action = "togglesharemenu"
  /\ Top.oldState["pausedstate"] = Bool(FALSE)
  /\ Top.changed = {"pausedstate", "sharemenustate"}
  /\ state_["sharemenustate"] = Bool(TRUE)
  /\ state_["pausedstate"] = Bool(TRUE)

\* The last invocation of listener id during the current top-level call.
LastCall(id) == CHOOSE i \in Calls_(id) : \A j \in Calls_(id) : j <= i

\* C19: when a top-level dispatch has returned, the dispatches nested in
\* its listeners included, the last value passed to each listener invoked
\* during it equals what get of the listener's key returns.
C19_ListenersEndConsistent ==
  (Idle /\ call.op = "dispatch" /\ outcome = "returned") =>
    \A id \in Ids :
      Calls_(id) # {} =>
        log[LastCall(id)].value = get(state_, KeyOf(listeners_, id))

====
